---- MODULE Spec2Model ----
(***************************************************************************)
(* Model of PolicyEvaluatorBuilder (policy_evaluator_builder.rs) and of    *)
(* Policy (policy.rs).                                                     *)
(*                                                                         *)
(* Worker threads own one builder each and call build on it; build is      *)
(* split at its calls into the engine, the module compiler, the runtime    *)
(* stacks and the evaluation context registry, so that the builds and      *)
(* drops of different workers interleave.                                  *)
(***************************************************************************)
EXTENDS Integers, Sequences, FiniteSets, TLC

\* ---------------------------------------------------------------- bounds
MaxBuilds == 2          \* build calls each worker thread makes
MaxInstanceId == 2      \* largest policy_id (instance handle) of a Policy value

Threads == {1, 2}
PolicyIds == {"p1", "p2"}
Resources == {"Namespace"}
None == "None"

Modes == {"KubewardenWapc", "Wasi", "Opa", "OpaGatekeeper"}

VARIABLES
    builder,     \* builder[t]: the PolicyEvaluatorBuilder worker t uses
    budget,      \* budget[t]: build calls worker t may still make
    pc,          \* pc[t]: where worker t is inside build / a guest call
    cur,         \* cur[t]: locals of the build (or guest call) in progress
    work,        \* work[t]: external operations the current/last build performed
    result,      \* result[t]: outcome of the current/last build
    owned,       \* owned[t]: the live PolicyEvaluator values worker t holds
    registry,    \* evaluation context registry: handle -> (worker_id, ctx)
    nextHandle,  \* the next waPC host id
    dropped,     \* handles of the waPC evaluators that were dropped
    calling,     \* calling[t]: the instance whose guest function worker t runs
    policies,    \* Policy values under comparison
    eqm          \* eqm[i][j]: result of policies[i] == policies[j]

vars == <<builder, budget, pc, cur, work, result, owned, registry,
          nextHandle, dropped, calling, policies, eqm>>

builderVars == <<builder, budget, pc, cur, work, result, owned, registry,
                 nextHandle, dropped, calling>>
policyVars == <<policies, eqm>>

\* ------------------------------------------------------------ the builder

\* #[derive(Default)] struct PolicyEvaluatorBuilder, as built by new()
BuilderNew(policy_id, worker_id) ==
    [ engine |-> FALSE,
      policy_id |-> policy_id,
      worker_id |-> worker_id,
      policy_file |-> FALSE,
      policy_contents |-> FALSE,
      policy_module |-> FALSE,
      execution_mode |-> None,
      callback_channel |-> FALSE,
      wasmtime_cache |-> FALSE,
      epoch_deadlines |-> FALSE,
      ctx_aware_resources_allow_list |-> {} ]

\* the setters: each replaces one field of the builder
SetEngine(b) == [b EXCEPT !.engine = TRUE]
SetPolicyFile(b) == [b EXCEPT !.policy_file = TRUE]
SetPolicyContents(b) == [b EXCEPT !.policy_contents = TRUE]
SetPolicyModule(b) == [b EXCEPT !.policy_module = TRUE]
SetExecutionMode(b, mode) == [b EXCEPT !.execution_mode = mode]
EnableWasmtimeCache(b) == [b EXCEPT !.wasmtime_cache = TRUE]
ContextAwareResourcesAllowed(b, rs) ==
    [b EXCEPT !.ctx_aware_resources_allow_list = rs]
EnableEpochInterruptions(b) == [b EXCEPT !.epoch_deadlines = TRUE]
SetCallbackChannel(b) == [b EXCEPT !.callback_channel = TRUE]

\* Option<T>: None is <<>>, Some(x) is <<x>>
Some(x) == <<x>>
NoneOpt == <<>>
IsSome(o) == o # <<>>

\* new() followed by the chain of setters the flags select
Configure(policy_id, worker_id, e, pf, pcn, pm, m, cb, wc, ed, al) ==
    LET b0 == BuilderNew(policy_id, worker_id)
        b1 == IF e THEN SetEngine(b0) ELSE b0
        b2 == IF pf THEN SetPolicyFile(b1) ELSE b1
        b3 == IF pcn THEN SetPolicyContents(b2) ELSE b2
        b4 == IF pm THEN SetPolicyModule(b3) ELSE b3
        b5 == IF m # None THEN SetExecutionMode(b4, m) ELSE b4
        b6 == IF cb THEN SetCallbackChannel(b5) ELSE b5
        b7 == IF wc THEN EnableWasmtimeCache(b6) ELSE b6
        b8 == IF ed THEN EnableEpochInterruptions(b7) ELSE b7
    IN  ContextAwareResourcesAllowed(b8, al)

\* every builder that new() and the setters can produce
AllBuilders(policy_ids, worker_ids) ==
    { Configure(p, w, e, pf, pcn, pm, m, cb, wc, ed, al) :
        p \in policy_ids, w \in worker_ids, e \in BOOLEAN, pf \in BOOLEAN,
        pcn \in BOOLEAN, pm \in BOOLEAN, m \in Modes \cup {None},
        cb \in BOOLEAN, wc \in BOOLEAN, ed \in BOOLEAN,
        al \in SUBSET Resources }

\* validate_user_input without its policy_file / policy_module check
validate_without_file_module_check(b) ==
    IF b.policy_file /\ b.policy_contents
        THEN "policy_file and policy_contents at the same time"
    ELSE IF b.policy_contents /\ b.policy_module
        THEN "policy_contents and policy_module at the same time"
    ELSE IF ~b.policy_file /\ ~b.policy_contents /\ ~b.policy_module
        THEN "must specify one module source"
    ELSE IF ~b.engine /\ b.policy_module
        THEN "policy_module needs its engine"
    ELSE IF b.execution_mode = None
        THEN "Must specify execution mode"
    ELSE "ok"

\* validate_user_input without its engine check
validate_without_engine_check(b) ==
    IF b.policy_file /\ b.policy_contents
        THEN "policy_file and policy_contents at the same time"
    ELSE IF b.policy_file /\ b.policy_module
        THEN "policy_file and policy_module at the same time"
    ELSE IF b.policy_contents /\ b.policy_module
        THEN "policy_contents and policy_module at the same time"
    ELSE IF ~b.policy_file /\ ~b.policy_contents /\ ~b.policy_module
        THEN "must specify one module source"
    ELSE IF b.execution_mode = None
        THEN "Must specify execution mode"
    ELSE "ok"

\* validate_user_input: "ok", or the error of the first check that fails
validate_user_input(b) ==
    IF b.policy_file /\ b.policy_contents
        THEN "policy_file and policy_contents at the same time"
    ELSE IF b.policy_file /\ b.policy_module
        THEN "policy_file and policy_module at the same time"
    ELSE IF b.policy_contents /\ b.policy_module
        THEN "policy_contents and policy_module at the same time"
    ELSE IF ~b.policy_file /\ ~b.policy_contents /\ ~b.policy_module
        THEN "must specify one module source"
    ELSE IF ~b.engine /\ b.policy_module
        THEN "policy_module needs its engine"
    ELSE IF b.execution_mode = None
        THEN "Must specify execution mode"
    ELSE "ok"

\* the locals of a build before its first step
NoLocals == [ engine |-> None, module |-> None, runtime |-> None,
              handle |-> NoneOpt ]

\* ------------------------------------------- evaluation context registry

\* register_policy(wapc_id, worker_id, eval_ctx)
register_policy(reg, wapc_id, worker_id, eval_ctx) ==
    [ h \in DOMAIN reg \cup {wapc_id} |->
        IF h = wapc_id THEN [ worker_id |-> worker_id, ctx |-> eval_ctx ]
        ELSE reg[h] ]

\* unregister_policy(wapc_id): idempotent removal
unregister_policy(reg, wapc_id) ==
    [ h \in DOMAIN reg \ {wapc_id} |-> reg[h] ]

\* get_worker_id(wapc_id): Some(worker id), or None when not registered
get_worker_id(wapc_id) ==
    IF wapc_id \in DOMAIN registry
      THEN Some(registry[wapc_id].worker_id) ELSE NoneOpt

\* get_eval_ctx(wapc_id): Some(context), or None when not registered
get_eval_ctx(wapc_id) ==
    IF wapc_id \in DOMAIN registry THEN Some(registry[wapc_id].ctx) ELSE NoneOpt

\* is_wapc_instance_registered(wapc_id)
is_wapc_instance_registered(wapc_id) == wapc_id \in DOMAIN registry

\* ------------------------------------------------------------------ build

ConfigError == "configuration error"
EngineError == "cannot create wasmtime engine"
ModuleError == "module error"
RuntimeError == "runtime error"
Errors == {ConfigError, EngineError, ModuleError, RuntimeError}

Fail(t, err) ==
    /\ result' = [result EXCEPT ![t] = err]
    /\ pc' = [pc EXCEPT ![t] = "idle"]

\* build, lines 210-211: a new call; validation decides whether it goes on
BuildValidate(t) ==
    /\ pc[t] = "idle"
    /\ budget[t] > 0
    /\ budget' = [budget EXCEPT ![t] = @ - 1]
    /\ cur' = [cur EXCEPT ![t] = NoLocals]
    /\ work' = [work EXCEPT ![t] = {}]
    /\ IF validate_user_input(builder[t]) # "ok"
         THEN Fail(t, ConfigError)
         ELSE /\ result' = [result EXCEPT ![t] = "pending"]
              /\ pc' = [pc EXCEPT ![t] = "engine"]
    /\ UNCHANGED <<builder, owned, registry, nextHandle, dropped, calling, policyVars>>

\* build, lines 213-230: the supplied engine, or a fresh one
BuildEngine(t) ==
    /\ pc[t] = "engine"
    /\ IF builder[t].engine
         THEN /\ cur' = [cur EXCEPT ![t].engine = "supplied"]
              /\ pc' = [pc EXCEPT ![t] = "module"]
              /\ UNCHANGED <<work, result>>
         ELSE LET cache == IF builder[t].wasmtime_cache
                             THEN {"cache_config_load_default"} ELSE {}
              IN \/ /\ builder[t].wasmtime_cache
                    /\ work' = [work EXCEPT ![t] = @ \cup cache]
                    /\ Fail(t, EngineError)
                    /\ UNCHANGED cur
                 \/ /\ work' = [work EXCEPT ![t] = @ \cup cache \cup {"Engine::new"}]
                    /\ Fail(t, EngineError)
                    /\ UNCHANGED cur
                 \/ /\ work' = [work EXCEPT ![t] = @ \cup cache \cup {"Engine::new"}]
                    /\ cur' = [cur EXCEPT ![t].engine =
                                 IF builder[t].epoch_deadlines
                                   THEN "fresh+epoch_interruption" ELSE "fresh"]
                    /\ pc' = [pc EXCEPT ![t] = "module"]
                    /\ UNCHANGED result
    /\ UNCHANGED <<builder, budget, owned, registry, nextHandle, dropped, calling, policyVars>>

\* BuildModule taking the module out of the builder instead of cloning it
BuildModuleTake(t) ==
    /\ pc[t] = "module"
    /\ IF builder[t].policy_module
         THEN /\ cur' = [cur EXCEPT ![t].module = "cloned"]
              /\ builder' = [builder EXCEPT ![t].policy_module = FALSE]
              /\ pc' = [pc EXCEPT ![t] = "runtime"]
              /\ UNCHANGED <<work, result>>
         ELSE LET ops == IF builder[t].policy_file
                           THEN {"Module::from_file"} ELSE {"Module::new"}
              IN /\ work' = [work EXCEPT ![t] = @ \cup ops]
                 /\ UNCHANGED builder
                 /\ \/ /\ Fail(t, ModuleError)
                       /\ UNCHANGED cur
                    \/ /\ cur' = [cur EXCEPT ![t].module = "compiled"]
                       /\ pc' = [pc EXCEPT ![t] = "runtime"]
                       /\ UNCHANGED result
    /\ UNCHANGED <<budget, owned, registry, nextHandle, dropped, calling, policyVars>>

\* build, lines 232-243: the supplied module, or one compiled from file or bytes
BuildModule(t) ==
    /\ pc[t] = "module"
    /\ IF builder[t].policy_module
         THEN /\ cur' = [cur EXCEPT ![t].module = "cloned"]
              /\ pc' = [pc EXCEPT ![t] = "runtime"]
              /\ UNCHANGED <<work, result>>
         ELSE LET ops == IF builder[t].policy_file
                           THEN {"Module::from_file"} ELSE {"Module::new"}
              IN /\ work' = [work EXCEPT ![t] = @ \cup ops]
                 /\ \/ /\ Fail(t, ModuleError)
                       /\ UNCHANGED cur
                    \/ /\ cur' = [cur EXCEPT ![t].module = "compiled"]
                       /\ pc' = [pc EXCEPT ![t] = "runtime"]
                       /\ UNCHANGED result
    /\ UNCHANGED <<builder, budget, owned, registry, nextHandle, dropped, calling, policyVars>>

\* the EvaluationContext create_wapc_runtime builds, lines 296-300
EvalCtx(policy_id, callback_channel, allow_list) ==
    [ policy_id |-> policy_id,
      callback_channel |-> callback_channel,
      ctx_aware_resources_allow_list |-> allow_list ]

\* create_wapc_runtime, line 295: WapcStack::new creates the waPC host, which
\* gets its id and starts running the guest's initialization code
CreateWapcRuntimeNew(t) ==
    /\ pc[t] = "runtime"
    /\ builder[t].execution_mode = "KubewardenWapc"
    /\ work' = [work EXCEPT ![t] = @ \cup {"WapcStack::new"}]
    /\ cur' = [cur EXCEPT ![t].handle = Some(nextHandle)]
    /\ nextHandle' = nextHandle + 1
    /\ pc' = [pc EXCEPT ![t] = "wapc_init"]
    /\ UNCHANGED <<builder, budget, result, owned, registry, dropped, calling,
                   policyVars>>

\* CreateWapcRuntimeInit registering the context before the error is looked at
CreateWapcRuntimeInitRegistersFirst(t) ==
    /\ pc[t] = "wapc_init"
    /\ registry' = register_policy(registry, cur[t].handle[1],
                       builder[t].worker_id,
                       EvalCtx(builder[t].policy_id,
                               builder[t].callback_channel,
                               builder[t].ctx_aware_resources_allow_list))
    /\ \/ Fail(t, RuntimeError)
       \/ /\ pc' = [pc EXCEPT ![t] = "wapc_register"]
          /\ UNCHANGED result
    /\ UNCHANGED <<builder, budget, cur, work, owned, nextHandle,
                   dropped, calling, policyVars>>

\* create_wapc_runtime, line 295: WapcStack::new returns; `?` leaves on an error
CreateWapcRuntimeInit(t) ==
    /\ pc[t] = "wapc_init"
    /\ \/ Fail(t, RuntimeError)
       \/ /\ pc' = [pc EXCEPT ![t] = "wapc_register"]
          /\ UNCHANGED result
    /\ UNCHANGED <<builder, budget, cur, work, owned, registry, nextHandle,
                   dropped, calling, policyVars>>

\* CreateWapcRuntimeRegister with register_policy's two u64 arguments swapped
CreateWapcRuntimeRegisterSwapped(t) ==
    /\ pc[t] = "wapc_register"
    /\ registry' = register_policy(registry, builder[t].worker_id,
                       cur[t].handle[1],
                       EvalCtx(builder[t].policy_id,
                               builder[t].callback_channel,
                               builder[t].ctx_aware_resources_allow_list))
    /\ work' = [work EXCEPT ![t] = @ \cup {"register_policy"}]
    /\ cur' = [cur EXCEPT ![t].runtime = "Wapc"]
    /\ pc' = [pc EXCEPT ![t] = "finish"]
    /\ UNCHANGED <<builder, budget, result, owned, nextHandle, dropped, calling,
                   policyVars>>

\* CreateWapcRuntimeRegister registering every context for worker 0
CreateWapcRuntimeRegisterWorkerZero(t) ==
    /\ pc[t] = "wapc_register"
    /\ registry' = register_policy(registry, cur[t].handle[1], 0,
                       EvalCtx(builder[t].policy_id,
                               builder[t].callback_channel,
                               builder[t].ctx_aware_resources_allow_list))
    /\ work' = [work EXCEPT ![t] = @ \cup {"register_policy"}]
    /\ cur' = [cur EXCEPT ![t].runtime = "Wapc"]
    /\ pc' = [pc EXCEPT ![t] = "finish"]
    /\ UNCHANGED <<builder, budget, result, owned, nextHandle, dropped, calling,
                   policyVars>>

\* CreateWapcRuntimeRegister without the call of register_policy
CreateWapcRuntimeRegisterSkipped(t) ==
    /\ pc[t] = "wapc_register"
    /\ cur' = [cur EXCEPT ![t].runtime = "Wapc"]
    /\ pc' = [pc EXCEPT ![t] = "finish"]
    /\ UNCHANGED <<builder, budget, work, result, owned, registry, nextHandle,
                   dropped, calling, policyVars>>

\* create_wapc_runtime, lines 296-303: the context is registered under the
\* stack's host id and the runtime is returned
CreateWapcRuntimeRegister(t) ==
    /\ pc[t] = "wapc_register"
    /\ registry' = register_policy(registry, cur[t].handle[1],
                       builder[t].worker_id,
                       EvalCtx(builder[t].policy_id,
                               builder[t].callback_channel,
                               builder[t].ctx_aware_resources_allow_list))
    /\ work' = [work EXCEPT ![t] = @ \cup {"register_policy"}]
    /\ cur' = [cur EXCEPT ![t].runtime = "Wapc"]
    /\ pc' = [pc EXCEPT ![t] = "finish"]
    /\ UNCHANGED <<builder, budget, result, owned, nextHandle, dropped, calling,
                   policyVars>>

\* BuildWasi registering a context as the waPC arm does
BuildWasiRegistering(t) ==
    /\ pc[t] = "runtime"
    /\ builder[t].execution_mode = "Wasi"
    /\ work' = [work EXCEPT ![t] = @ \cup {"wasi_cli::Stack::new"}]
    /\ registry' = register_policy(registry, nextHandle, builder[t].worker_id,
                       EvalCtx(builder[t].policy_id,
                               builder[t].callback_channel,
                               builder[t].ctx_aware_resources_allow_list))
    /\ \/ /\ Fail(t, RuntimeError)
          /\ UNCHANGED cur
       \/ /\ cur' = [cur EXCEPT ![t].runtime = "Cli"]
          /\ pc' = [pc EXCEPT ![t] = "finish"]
          /\ UNCHANGED result
    /\ UNCHANGED <<builder, budget, owned, nextHandle, dropped,
                   calling, policyVars>>

\* build, lines 255-258: the command-line stack
BuildWasi(t) ==
    /\ pc[t] = "runtime"
    /\ builder[t].execution_mode = "Wasi"
    /\ work' = [work EXCEPT ![t] = @ \cup {"wasi_cli::Stack::new"}]
    /\ \/ /\ Fail(t, RuntimeError)
          /\ UNCHANGED cur
       \/ /\ cur' = [cur EXCEPT ![t].runtime = "Cli"]
          /\ pc' = [pc EXCEPT ![t] = "finish"]
          /\ UNCHANGED result
    /\ UNCHANGED <<builder, budget, owned, registry, nextHandle, dropped,
                   calling, policyVars>>

\* build, lines 259-275: the rule-engine evaluator
BuildBurrego(t) ==
    /\ pc[t] = "runtime"
    /\ builder[t].execution_mode \in {"Opa", "OpaGatekeeper"}
    /\ work' = [work EXCEPT ![t] = @ \cup {"burrego::EvaluatorBuilder::build"}]
    /\ \/ /\ Fail(t, RuntimeError)
          /\ UNCHANGED cur
       \/ /\ cur' = [cur EXCEPT ![t].runtime = "Burrego"]
          /\ pc' = [pc EXCEPT ![t] = "finish"]
          /\ UNCHANGED result
    /\ UNCHANGED <<builder, budget, owned, registry, nextHandle, dropped,
                   calling, policyVars>>

\* build, lines 278-282: PolicyEvaluator::new wraps the runtime
BuildFinish(t) ==
    /\ pc[t] = "finish"
    /\ owned' = [owned EXCEPT ![t] = Append(@,
                    [ policy_id |-> builder[t].policy_id,
                      worker_id |-> builder[t].worker_id,
                      runtime |-> cur[t].runtime,
                      handle |-> cur[t].handle ])]
    /\ result' = [result EXCEPT ![t] = "ok"]
    /\ pc' = [pc EXCEPT ![t] = "idle"]
    /\ UNCHANGED <<builder, budget, cur, work, registry, nextHandle, dropped,
                   calling, policyVars>>

\* ------------------------------------------------- the evaluator's life

RemoveAt(s, i) == SubSeq(s, 1, i - 1) \o SubSeq(s, i + 1, Len(s))

\* DropEvaluator without the call of unregister_policy
DropEvaluatorKeepsEntry(t, i) ==
    /\ pc[t] = "idle"
    /\ i \in 1..Len(owned[t])
    /\ LET e == owned[t][i]
       IN IF e.runtime = "Wapc"
            THEN /\ dropped' = dropped \cup {e.handle[1]}
                 /\ UNCHANGED registry
            ELSE UNCHANGED <<registry, dropped>>
    /\ owned' = [owned EXCEPT ![t] = RemoveAt(@, i)]
    /\ UNCHANGED <<builder, budget, pc, cur, work, result, nextHandle, calling,
                   policyVars>>

\* drop(evaluator): a waPC evaluator leaves the registry
DropEvaluator(t, i) ==
    /\ pc[t] = "idle"
    /\ i \in 1..Len(owned[t])
    /\ LET e == owned[t][i]
       IN IF e.runtime = "Wapc"
            THEN /\ registry' = unregister_policy(registry, e.handle[1])
                 /\ dropped' = dropped \cup {e.handle[1]}
            ELSE UNCHANGED <<registry, dropped>>
    /\ owned' = [owned EXCEPT ![t] = RemoveAt(@, i)]
    /\ UNCHANGED <<builder, budget, pc, cur, work, result, nextHandle, calling,
                   policyVars>>

\* a guest function of a waPC evaluator is invoked
GuestCall(t, i) ==
    /\ pc[t] = "idle"
    /\ i \in 1..Len(owned[t])
    /\ owned[t][i].runtime = "Wapc"
    /\ calling' = [calling EXCEPT ![t] = owned[t][i].handle]
    /\ pc' = [pc EXCEPT ![t] = "in_call"]
    /\ UNCHANGED <<builder, budget, cur, work, result, owned, registry,
                   nextHandle, dropped, policyVars>>

\* the guest function returns
GuestReturn(t) ==
    /\ pc[t] = "in_call"
    /\ calling' = [calling EXCEPT ![t] = NoneOpt]
    /\ pc' = [pc EXCEPT ![t] = "idle"]
    /\ UNCHANGED <<builder, budget, cur, work, result, owned, registry,
                   nextHandle, dropped, policyVars>>

\* ----------------------------------------------------------------- Policy

Channels == {"ch1"}

\* Policy::new
PolicyNew(id, mutating, policy_id, callback_channel) ==
    [ id |-> id, mutating |-> mutating, policy_id |-> policy_id,
      callback_channel |-> callback_channel ]

\* an equality that compares the mutating flag too
PolicyEqDerived(a, b) ==
    a.id = b.id /\ a.mutating = b.mutating /\ a.policy_id = b.policy_id

\* impl PartialEq for Policy
PolicyEq(a, b) == a.id = b.id /\ a.policy_id = b.policy_id

PolicyValues ==
    { PolicyNew(id, m, pid, ch) :
        id \in PolicyIds, m \in BOOLEAN,
        pid \in {NoneOpt} \cup { Some(n) : n \in 0..MaxInstanceId },
        ch \in {NoneOpt} \cup { Some(c) : c \in Channels } }

\* a == b for every pair of the three values
ComparePolicies ==
    /\ eqm = <<>>
    /\ eqm' = [ i \in 1..3 |-> [ j \in 1..3 |-> PolicyEq(policies[i], policies[j]) ] ]
    /\ UNCHANGED <<policies, builderVars>>

\* ---------------------------------------------------------- specifications

InitWorkers(builders, budgets) ==
    /\ builder = builders
    /\ budget = budgets
    /\ pc = [ t \in Threads |-> "idle" ]
    /\ cur = [ t \in Threads |-> NoLocals ]
    /\ work = [ t \in Threads |-> {} ]
    /\ result = [ t \in Threads |-> "none" ]
    /\ owned = [ t \in Threads |-> <<>> ]
    /\ registry = <<>>
    /\ nextHandle = 1
    /\ dropped = {}
    /\ calling = [ t \in Threads |-> NoneOpt ]

\* the builders of the concurrent workers: worker t builds for worker id t - 1
\* from a compiled module and its engine, as the repository's tests do
WorkerBuilders(t) ==
    { Configure(p, t - 1, TRUE, FALSE, FALSE, TRUE, m, FALSE, FALSE, FALSE, {}) :
        p \in PolicyIds, m \in {"KubewardenWapc", "Wasi", "Opa"} }

Init ==
    /\ \E bs \in [ Threads -> UNION { WorkerBuilders(t) : t \in Threads } ] :
          /\ \A t \in Threads : bs[t] \in WorkerBuilders(t)
          /\ InitWorkers(bs, [ t \in Threads |-> MaxBuilds ])
    /\ policies = <<>>
    /\ eqm = <<>>

\* worker 1 has any builder; worker 2 builds once, with the builder of the test
\* wapc_policy_is_removed_from_registry_when_the_evaluator_is_dropped
TestBuilder ==
    SetPolicyModule(SetEngine(SetExecutionMode(BuilderNew("test", 0),
                                               "KubewardenWapc")))

InitConfig ==
    /\ \E b \in AllBuilders(PolicyIds, {1}) :
          InitWorkers([ t \in Threads |-> IF t = 1 THEN b ELSE TestBuilder ],
                      [ t \in Threads |-> IF t = 1 THEN MaxBuilds ELSE 1 ])
    /\ policies = <<>>
    /\ eqm = <<>>

InitPolicy ==
    /\ InitWorkers([ t \in Threads |-> BuilderNew("p1", t - 1) ],
                   [ t \in Threads |-> 0 ])
    /\ policies \in PolicyValues \X PolicyValues \X PolicyValues
    /\ eqm = <<>>

Next ==
    \/ \E t \in Threads : BuildValidate(t)
    \/ \E t \in Threads : BuildEngine(t)
    \/ \E t \in Threads : BuildModule(t)
    \/ \E t \in Threads : CreateWapcRuntimeNew(t)
    \/ \E t \in Threads : CreateWapcRuntimeInit(t)
    \/ \E t \in Threads : CreateWapcRuntimeRegister(t)
    \/ \E t \in Threads : BuildWasi(t)
    \/ \E t \in Threads : BuildBurrego(t)
    \/ \E t \in Threads : BuildFinish(t)
    \/ \E t \in Threads : \E i \in 1..MaxBuilds : DropEvaluator(t, i)
    \/ \E t \in Threads : \E i \in 1..MaxBuilds : GuestCall(t, i)
    \/ \E t \in Threads : GuestReturn(t)

NextPolicy == ComparePolicies

Spec == Init /\ [][Next]_vars
SpecConfig == InitConfig /\ [][Next]_vars
SpecPolicy == InitPolicy /\ [][NextPolicy]_vars

\* ------------------------------------------------------------ properties

Sources(b) ==
    (IF b.policy_file THEN {"policy_file"} ELSE {})
    \cup (IF b.policy_contents THEN {"policy_contents"} ELSE {})
    \cup (IF b.policy_module THEN {"policy_module"} ELSE {})

BuildPcs == {"engine", "module", "runtime", "wapc_init", "wapc_register", "finish"}

\* this step is a step of a build call of worker t
BuildStep(t) ==
    \/ pc[t] = "idle" /\ budget'[t] # budget[t]
    \/ pc[t] \in BuildPcs /\ pc'[t] # pc[t]

Registered(h) == is_wapc_instance_registered(h)

\* C1: a build call on a builder with two or more of policy_file,
\* policy_contents and policy_module set returns a configuration error in its
\* first step and does nothing else: no engine, module, stack or registry
\* operation is performed, whatever the other fields are.
C1_TwoSourcesFailBeforeAnyWork ==
    [][ \A t \in Threads :
          (pc[t] = "idle" /\ budget'[t] # budget[t]
              /\ Cardinality(Sources(builder[t])) >= 2)
          => /\ result'[t] = ConfigError
             /\ pc'[t] = "idle"
             /\ work'[t] = {}
             /\ cur'[t] = NoLocals
             /\ registry' = registry
             /\ nextHandle' = nextHandle
             /\ owned' = owned ]_vars

C1_Witness ==
    \E t \in Threads :
        /\ Cardinality(Sources(builder[t])) >= 2
        /\ builder[t].engine /\ builder[t].execution_mode = "KubewardenWapc"
        /\ result[t] = ConfigError
        /\ registry # <<>>

\* C2: validation inside build succeeds exactly when one module source is
\* set, the execution mode is set, and policy_module comes with an engine;
\* otherwise build fails with a configuration error.
ValidBuilder(b) ==
    /\ Cardinality(Sources(b)) = 1
    /\ b.execution_mode # None
    /\ b.policy_module => b.engine

C3_RegisteredWhenRuntimeReturned ==
    \A t \in Threads :
        (pc[t] = "finish" /\ cur[t].runtime = "Wapc")
        => /\ IsSome(cur[t].handle)
           /\ Registered(cur[t].handle[1])
           /\ get_worker_id(cur[t].handle[1]) = Some(builder[t].worker_id)
           /\ get_eval_ctx(cur[t].handle[1])[1].policy_id = builder[t].policy_id

C3_Witness ==
    \E t \in Threads :
        /\ pc[t] = "finish" /\ cur[t].runtime = "Wapc"
        /\ Cardinality(DOMAIN registry) >= 2

C5_AllGuestCodeRunsRegistered ==
    \A t \in Threads :
        /\ pc[t] = "wapc_init" => Registered(cur[t].handle[1])
        /\ pc[t] = "in_call" => Registered(calling[t][1])

\* C5 as amended: whenever a guest function invoked through a built evaluator
\* runs, the instance's handle is registered; the initialization code that
\* runs while WapcStack::new builds the stack runs before the registration.
C5_GuestCallsRunRegistered ==
    \A t \in Threads :
        /\ pc[t] = "in_call" => (IsSome(calling[t]) /\ Registered(calling[t][1]))
        /\ pc[t] = "wapc_init" => ~Registered(cur[t].handle[1])

C5_Witness ==
    \E t \in Threads :
        /\ pc[t] = "in_call"
        /\ \E u \in Threads : pc[u] = "wapc_init"

\* C6: under every interleaving of the workers' builds and drops, no two live
\* instances share a handle, every instance that was registered and not
\* dropped has exactly its own entry, and that entry carries the worker id
\* and the policy id of the build that made the instance.
Instances ==
    UNION { { [ worker_id |-> owned[t][i].worker_id,
                policy_id |-> owned[t][i].policy_id,
                handle |-> owned[t][i].handle[1], at |-> <<t, i>> ] :
              i \in { k \in 1..Len(owned[t]) : owned[t][k].runtime = "Wapc" } } :
            t \in Threads }
    \cup
    { [ worker_id |-> builder[t].worker_id, policy_id |-> builder[t].policy_id,
        handle |-> cur[t].handle[1], at |-> <<t, 0>> ] :
        t \in { u \in Threads : pc[u] = "finish" /\ cur[u].runtime = "Wapc" } }

C6_OneEntryPerInstance ==
    /\ \A a \in Instances, b \in Instances : a.handle = b.handle => a = b
    /\ DOMAIN registry = { a.handle : a \in Instances }
    /\ \A a \in Instances :
          /\ registry[a.handle].worker_id = a.worker_id
          /\ registry[a.handle].ctx.policy_id = a.policy_id

C6_Witness ==
    \E a \in Instances, b \in Instances :
        /\ a.worker_id # b.worker_id
        /\ a.policy_id # b.policy_id
        /\ dropped # {}

\* C7: a == b holds exactly when the ids and the policy_ids (instance
\* handles) agree, whatever the callback channels and the mutating flags
\* are; the relation is reflexive, symmetric and transitive.
C7_EqualityOverIdAndInstance ==
    eqm # <<>> =>
        /\ \A i \in 1..3, j \in 1..3 :
              eqm[i][j] <=> (policies[i].id = policies[j].id
                             /\ policies[i].policy_id = policies[j].policy_id)
        /\ \A i \in 1..3 : eqm[i][i]
        /\ \A i \in 1..3, j \in 1..3 : eqm[i][j] => eqm[j][i]
        /\ \A i \in 1..3, j \in 1..3, k \in 1..3 :
              (eqm[i][j] /\ eqm[j][k]) => eqm[i][k]

C7_Witness ==
    /\ eqm # <<>>
    /\ eqm[1][2] /\ eqm[2][3]
    /\ policies[1].callback_channel # policies[2].callback_channel
    /\ policies[2].mutating # policies[3].mutating
    /\ IsSome(policies[1].policy_id)

\* C8: no step of a build whose execution mode is Wasi, Opa or OpaGatekeeper
\* changes the registry, whether the build goes on to succeed or to fail; a
\* step that adds a registry entry is a step of a KubewardenWapc build.
C8_OnlyWapcBuildsRegister ==
    [][ /\ \A t \in Threads :
              (BuildStep(t) /\ builder[t].execution_mode # "KubewardenWapc")
              => registry' = registry
        /\ (DOMAIN registry' \ DOMAIN registry # {})
              => \E t \in Threads :
                    BuildStep(t) /\ builder[t].execution_mode = "KubewardenWapc"
      ]_vars

C8_Witness ==
    \E t \in Threads :
        /\ builder[t].execution_mode \in {"Wasi", "Opa", "OpaGatekeeper"}
        /\ result[t] = "ok"
        /\ Len(owned[t]) > 0
        /\ registry # <<>>

\* C9: no step changes a builder; the waPC evaluators a worker built from its
\* builder have pairwise distinct handles, each with its own registry entry
\* carrying the builder's worker id and policy id; dropping one of them
\* removes its entry and leaves all other entries as they were.
WapcIndexes(own, t) == { k \in 1..Len(own[t]) : own[t][k].runtime = "Wapc" }
HandlesIn(own, t) == { own[t][k].handle[1] : k \in WapcIndexes(own, t) }

C9_RepeatedBuildsAreIndependent ==
    [][ /\ builder' = builder
        /\ \A t \in Threads :
              /\ Cardinality(HandlesIn(owned', t)) = Cardinality(WapcIndexes(owned', t))
              /\ \A h \in HandlesIn(owned', t) :
                    /\ h \in DOMAIN registry'
                    /\ registry'[h].worker_id = builder[t].worker_id
                    /\ registry'[h].ctx.policy_id = builder[t].policy_id
        /\ \A t \in Threads :
              Len(owned'[t]) < Len(owned[t])
              => LET gone == HandlesIn(owned, t) \ HandlesIn(owned', t)
                 IN /\ DOMAIN registry' = DOMAIN registry \ gone
                    /\ \A h \in DOMAIN registry' : registry'[h] = registry[h]
      ]_vars

C9_Witness ==
    \E t \in Threads :
        /\ budget[t] = MaxBuilds - 2
        /\ \A u \in Threads \ {t} : budget[u] = MaxBuilds
        /\ Cardinality(HandlesIn(owned, t)) = 1
        /\ HandlesIn(owned, t) \subseteq DOMAIN registry
        /\ dropped # {}

\* C10: when a build has returned an error, at whatever stage, it has made no
\* call of register_policy and the registry has no entry for the instance it
\* may have created; and every entry in the registry belongs to an instance
\* whose owner is alive, so the entries of destroyed evaluators are gone.
C10_NoEntryWithoutLiveOwner ==
    /\ \A t \in Threads :
          (pc[t] = "idle" /\ result[t] \in Errors)
          => /\ "register_policy" \notin work[t]
             /\ IsSome(cur[t].handle) => ~Registered(cur[t].handle[1])
    /\ DOMAIN registry \subseteq { a.handle : a \in Instances }

C10_Witness ==
    \E t \in Threads :
        /\ pc[t] = "idle"
        /\ result[t] = RuntimeError
        /\ IsSome(cur[t].handle)
        /\ registry # <<>>
        /\ dropped # {}

====
